---- MODULE Spec2Model ----
(***************************************************************************)
(* A model of streamlit_app.py: the e-Gov statute search front end with    *)
(* AI summary and question answering.                                      *)
(*                                                                         *)
(* Texts are kept run-length encoded: a text is a sequence of runs         *)
(* [ch, n], n >= 1 copies of the character ch, adjacent runs holding       *)
(* different characters.  Characters are integers; Space and Newline are   *)
(* the whitespace characters, every positive integer is a letter.  The     *)
(* encoding lets the 30,000 character cap of the extractor keep its value. *)
(*                                                                         *)
(* The script runs top to bottom once per widget event and once more after *)
(* every st.rerun().  A run is one action: the network and LLM calls block *)
(* the run that makes them, and the registry's and the LLM's answers are   *)
(* inputs of that action.                                                  *)
(*                                                                         *)
(* Spec is the application.  SearchSpec is its sidebar, search and table   *)
(* header alone, against a registry that may also list records without a   *)
(* date.  CacheSpec follows the cached extractor over time.  FunctionSpec  *)
(* applies the helper functions to inputs of their own.                    *)
(***************************************************************************)
EXTENDS Integers, Sequences, FiniteSets, TLC

\* ------------------------------------------------------------------ bounds
\* Number of statutes the registry holds (ids 1..NumLaws).
NumLaws == 3
\* Largest day number a date may take ("today", the date inputs' max_value).
MaxDate == 2
\* Longest chat history, in question/answer pairs, the model follows.
MaxTurns == 2
\* Longest list of elements of a statute body FunctionSpec builds from the pool.
MaxElements == 3
\* Longest list of records FunctionSpec hands to the filter.
MaxRows == 2
\* Most calls of the cached extractor CacheSpec follows.
MaxCalls == 3
\* Most pieces FunctionSpec joins into a statute text or a citation marker.
MaxPieces == 4

\* --------------------------------------------------------------- constants
MAX_CHARS == 30000
\* st.cache_data(ttl=3600), in seconds.
TTL == 3600
\* Python's None for a law id and for a date.
NoLaw == 0
NoDate == 0
Space == 0
Newline == -1
None == [kind |-> "None"]
\* None where a text or a list is expected: no text and no list equals it.
NoText == <<None>>
NoList == <<None>>

LAW_TYPE_ALL == 1
SPECIFIC_LAW_TYPE_CODES == <<2, 3, 4>>
LAW_TYPE_CODES == {1, 2, 3, 4}
TYPE_SORT_ORDER(code) == CASE code = 2 -> 1 [] code = 3 -> 2 [] code = 4 -> 3 [] OTHER -> 99
TYPE_SORT_KEY == "_type_sort_key"
COL_NAME == "LawName"
COL_NUMBER == "LawNumber"
COL_DATE == "PromulgationDate_dt"
DEFAULT_SPECIFIC_TYPE_SORT_COLUMN == COL_NUMBER
DEFAULT_SPECIFIC_TYPE_SORT_ASCENDING == TRUE
DEFAULT_ALL_TYPE_SORT_COLUMN == TYPE_SORT_KEY
DEFAULT_ALL_TYPE_SORT_ASCENDING == TRUE
\* BASE_SORTABLE_COLUMNS plus the law-type column added at line 365.
SORTABLE_COLUMNS == {COL_NAME, COL_NUMBER, COL_DATE, TYPE_SORT_KEY}

\* ------------------------------------------------------------------- texts
Run(c, k) == [ch |-> c, n |-> k]
IsSpace(c) == c \in {Space, Newline}

RECURSIVE SLen(_)
SLen(s) == IF s = <<>> THEN 0 ELSE Head(s).n + SLen(Tail(s))

\* s + t, merging the runs that meet when they hold the same character.
Cat(s, t) ==
    IF s = <<>> THEN t
    ELSE IF t = <<>> THEN s
    ELSE IF s[Len(s)].ch = t[1].ch
         THEN SubSeq(s, 1, Len(s) - 1) \o <<Run(t[1].ch, s[Len(s)].n + t[1].n)>> \o Tail(t)
         ELSE s \o t

RECURSIVE LStrip(_)
LStrip(s) == IF s # <<>> /\ IsSpace(Head(s).ch) THEN LStrip(Tail(s)) ELSE s

RECURSIVE RStrip(_)
RStrip(s) == IF s # <<>> /\ IsSpace(s[Len(s)].ch) THEN RStrip(SubSeq(s, 1, Len(s) - 1)) ELSE s

\* str.strip()
Strip(s) == RStrip(LStrip(s))

\* re.sub(r'\s+', ' ', s): every maximal run of whitespace becomes one space.
RECURSIVE CollapseWS(_)
CollapseWS(s) ==
    IF s = <<>> THEN <<>>
    ELSE IF IsSpace(Head(s).ch)
         THEN Cat(<<Run(Space, 1)>>, CollapseWS(LStrip(s)))
         ELSE Cat(<<Head(s)>>, CollapseWS(Tail(s)))

\* s[:k]
RECURSIVE Take(_, _)
Take(s, k) ==
    IF s = <<>> \/ k <= 0 THEN <<>>
    ELSE IF Head(s).n <= k THEN <<Head(s)>> \o Take(Tail(s), k - Head(s).n)
         ELSE <<Run(Head(s).ch, k)>>

\* "\n".join(parts)
RECURSIVE JoinNL(_)
JoinNL(parts) ==
    IF parts = <<>> THEN <<>>
    ELSE IF Len(parts) = 1 THEN parts[1]
         ELSE Cat(Cat(parts[1], <<Run(Newline, 1)>>), JoinNL(Tail(parts)))

\* Python truthiness of an optional text: neither None nor "".
TextTruthy(t) == t # NoText /\ t # <<>>

\* ----------------------------------------------------------- the registry
\* The category a statute is listed under.
CategoryOf(id) == SPECIFIC_LAW_TYPE_CODES[((id - 1) % 3) + 1]
\* Names and numbers are sequences of letters; upper case is a letter of its own.
NameOf(id) == IF id % 2 = 1 THEN <<"A", "b">> ELSE <<"b", "c">>
NumberOf(id) == IF id % 3 = 0 THEN <<"a">> ELSE <<"C", "d">>
\* The PromulgationDate text: a day number when it parses, 0 when it is absent
\* (every fourth statute carries none).
DateTextOf(id) == IF id % 4 = 0 THEN 0 ELSE 1 + (id % MaxDate)

ListEntry(id) ==
    [LawId |-> id, LawName |-> NameOf(id), LawNo |-> NumberOf(id),
     PromulgationDate |-> DateTextOf(id)]

RECURSIVE EntriesFrom(_, _)
EntriesFrom(id, code) ==
    IF id > NumLaws THEN <<>>
    ELSE (IF CategoryOf(id) = code THEN <<ListEntry(id)>> ELSE <<>>) \o EntriesFrom(id + 1, code)

Element(tag, text) == [tag |-> tag, text |-> text]

\* The statute bodies the registry serves: a structured body, a body with
\* only the raw LawFullText field (longer than the cap), a body with no
\* text at all, and a structured body longer than the cap.
LawElements(id) ==
    CASE id % 4 = 1 ->
           <<Element("LawTitle", <<Run(Space, 2), Run(id, 3), Run(Newline, 1)>>),
             Element("TOC", <<Run(id + NumLaws, 4)>>),
             Element("ArticleTitle", NoText),
             Element("Sentence", <<Run(id, 5), Run(Newline, 2), Run(Space, 1), Run(id + NumLaws, 2)>>)>>
      [] id % 4 = 2 ->
           <<Element("LawTitle", <<Run(Space, 3)>>),
             Element("LawFullText", <<Run(Newline, 1), Run(id, 40000), Run(Space, 2), Run(id, 6)>>)>>
      [] id % 4 = 3 ->
           <<Element("LawTitle", NoText),
             Element("Sentence", <<>>),
             Element("LawFullText", <<Run(Space, 1), Run(Newline, 1)>>)>>
      [] OTHER ->
           <<Element("LawTitle", <<Run(id, 2)>>),
             Element("ParagraphSentence", <<Run(id, 40000), Run(Space, 1)>>)>>

ApplData(entries, elements) == [kind |-> "ApplData", elements |-> elements, LawNameListInfo |-> entries]
\* An XML envelope: whether it parses, Result/Code ("" when the node is
\* missing), Result/Message, and ApplData (None when missing).
Xml(wellformed, code, appdata) ==
    [code |-> code, wellformed |-> wellformed, appdata |-> appdata, message |-> "msg"]
\* An HTTP exchange: net is "error" when requests.get raises a connection
\* error or a timeout.
Http(net, status, xml) == [net |-> net, status |-> status, xml |-> xml]
NoXml == Xml(FALSE, "", None)

\* What GET /lawlists/{code} may answer.
ListResponses(code) ==
    { Http("ok", 200, Xml(TRUE, "0", ApplData(EntriesFrom(1, code), <<>>))),
      Http("error", 0, NoXml),
      Http("ok", 200, Xml(TRUE, "1", None)) }

\* What GET /lawdata/{law_id} may answer.  fetch_law_data_for_ai is wrapped in
\* st.cache_data(ttl=3600): a call may return the result of an earlier call
\* for the same id, which is the result for one of these answers too.
DataResponses(id) ==
    { Http("ok", 200, Xml(TRUE, "0", ApplData(<<>>, LawElements(id)))),
      Http("error", 0, NoXml),
      Http("ok", 404, NoXml) }

\* ------------------------------------------------------- API helper functions
ParseResult(app_data, result_code, message) ==
    [message |-> message, app_data |-> app_data, result_code |-> result_code]

\* parse_api_response with the payload returned whatever the result code.
parse_api_response_IgnoresCode(xml) ==
    IF ~xml.wellformed THEN ParseResult(None, "-1", "XML Parse Error")
    ELSE LET result_code == IF xml.code # "" THEN xml.code ELSE "-1"
         IN  IF xml.appdata = None THEN ParseResult(None, result_code, xml.message)
             ELSE ParseResult(xml.appdata, result_code, xml.message)

parse_api_response(xml) ==
    IF ~xml.wellformed THEN ParseResult(None, "-1", "XML Parse Error")
    ELSE LET result_code == IF xml.code # "" THEN xml.code ELSE "-1"
         IN  IF result_code # "0" THEN ParseResult(None, result_code, xml.message)
             ELSE IF xml.appdata = None THEN ParseResult(None, "0", "no ApplData")
             ELSE ParseResult(xml.appdata, result_code, xml.message)

\* datetime.strptime(text, "%Y%m%d").date(), None when absent or unparsable.
ParseDate(text) == IF text >= 1 THEN text ELSE NoDate

LawRecord(info, law_type_code) ==
    [code |-> law_type_code,
     LawId |-> info.LawId, LawName |-> info.LawName, LawNumber |-> info.LawNo,
     date |-> ParseDate(info.PromulgationDate),
     sort_key |-> TYPE_SORT_ORDER(law_type_code)]

RECURSIVE LawRecords(_, _)
LawRecords(infos, law_type_code) ==
    IF infos = <<>> THEN <<>>
    ELSE <<LawRecord(Head(infos), law_type_code)>> \o LawRecords(Tail(infos), law_type_code)

_fetch_specific_type(law_type_code, response) ==
    IF response.net # "ok" \/ response.status >= 400 THEN <<>>
    ELSE LET parsed == parse_api_response(response.xml)
         IN  IF parsed.app_data = None THEN <<>>
             ELSE LawRecords(parsed.app_data.LawNameListInfo, law_type_code)

\* The umbrella branch of fetch_law_list: one listing per concrete code, in
\* order; laws is the return value, warning the st.warning of line 91.
\* FetchEach giving up at the first listing that comes back empty.
RECURSIVE FetchEach_StopAtFailure(_, _)
FetchEach_StopAtFailure(codes, responses) ==
    IF codes = <<>> THEN <<>>
    ELSE LET laws_for_type == _fetch_specific_type(Head(codes), responses[Head(codes)])
         IN  IF laws_for_type = <<>> THEN <<laws_for_type>>
             ELSE <<laws_for_type>> \o FetchEach_StopAtFailure(Tail(codes), responses)

RECURSIVE FetchEach(_, _)
FetchEach(codes, responses) ==
    IF codes = <<>> THEN <<>>
    ELSE <<_fetch_specific_type(Head(codes), responses[Head(codes)])>> \o FetchEach(Tail(codes), responses)

RECURSIVE Extend(_)
Extend(lists) == IF lists = <<>> THEN <<>> ELSE Head(lists) \o Extend(Tail(lists))

ListResult(laws, warning) == [laws |-> laws, warning |-> warning]

fetch_law_list(requested_law_type_code, responses) ==
    IF requested_law_type_code = LAW_TYPE_ALL
    THEN LET per_type == FetchEach(SPECIFIC_LAW_TYPE_CODES, responses)
             all_laws == Extend(per_type)
             fetch_errors == \E i \in 1..Len(per_type) : per_type[i] = <<>>
         IN  IF all_laws = <<>> /\ fetch_errors THEN ListResult(NoList, FALSE)
             ELSE ListResult(all_laws, fetch_errors)
    ELSE IF \E i \in 1..Len(SPECIFIC_LAW_TYPE_CODES) : SPECIFIC_LAW_TYPE_CODES[i] = requested_law_type_code
    THEN LET laws == _fetch_specific_type(requested_law_type_code, responses[requested_law_type_code])
         IN  \* line 95, "if not laws: return None; return laws": both returns
             \* are the body of the if, so a non-empty list falls off the end
             \* of the function, which returns None.
             IF laws = <<>> THEN ListResult(NoList, FALSE) ELSE ListResult(NoList, FALSE)
    ELSE ListResult(NoList, FALSE)

\* ------------------------------------------------------ full text extractor
RELEVANT_TAGS ==
    {"LawTitle", "ArticleTitle", "ParagraphSentence", "ItemSentence", "Subitem1Sentence",
     "Subitem2Sentence", "SupplProvisionLabel", "SupplProvisionSentence", "Sentence"}

Error(kind, law_id) == [kind |-> kind, law_id |-> law_id]
FetchResult(text, error) == [text |-> text, error |-> error]

\* Lines 109-113: the stripped, non-empty texts of the allow-listed elements,
\* in document order.
RECURSIVE ExtractedTexts(_)
ExtractedTexts(elements) ==
    IF elements = <<>> THEN <<>>
    ELSE LET element == Head(elements)
             text == Strip(element.text)
         IN  (IF element.tag \in RELEVANT_TAGS /\ TextTruthy(element.text) /\ text # <<>>
              THEN <<text>> ELSE <<>>) \o ExtractedTexts(Tail(elements))

\* app_data.find("./LawFullText"): the first such element, None without one.
RECURSIVE FindFullText(_)
FindFullText(elements) ==
    IF elements = <<>> THEN None
    ELSE IF Head(elements).tag = "LawFullText" THEN Head(elements)
    ELSE FindFullText(Tail(elements))

\* ExtractText with the raw full text field preferred whenever it has a text.
ExtractText_PrefersFullText(law_id, app_data) ==
    LET extracted_texts == ExtractedTexts(app_data.elements)
        fallback_node == FindFullText(app_data.elements)
    IN  IF fallback_node # None /\ TextTruthy(fallback_node.text) /\ Strip(fallback_node.text) # <<>>
        THEN FetchResult(Strip(CollapseWS(fallback_node.text)), None)
        ELSE IF extracted_texts = <<>> THEN FetchResult(NoText, Error("no_text", law_id))
        ELSE LET cleaned_text == Strip(CollapseWS(JoinNL(extracted_texts)))
             IN  IF cleaned_text = <<>>
                 THEN FetchResult(NoText, Error("empty_after_cleaning", law_id))
                 ELSE FetchResult(Take(cleaned_text, MAX_CHARS), None)

\* Lines 114-125, given ApplData.
ExtractText(law_id, app_data) ==
    LET extracted_texts == ExtractedTexts(app_data.elements)
    IN  IF extracted_texts = <<>>
        THEN LET fallback_node == FindFullText(app_data.elements)
             IN  IF fallback_node # None /\ TextTruthy(fallback_node.text)
                    /\ Strip(fallback_node.text) # <<>>
                 THEN FetchResult(Strip(CollapseWS(fallback_node.text)), None)
                 ELSE FetchResult(NoText, Error("no_text", law_id))
        ELSE LET cleaned_text == Strip(CollapseWS(JoinNL(extracted_texts)))
             IN  IF cleaned_text = <<>>
                 THEN FetchResult(NoText, Error("empty_after_cleaning", law_id))
                 ELSE FetchResult(Take(cleaned_text, MAX_CHARS), None)

fetch_law_data_for_ai(law_id, response) ==
    IF law_id = NoLaw THEN FetchResult(NoText, Error("law_id_required", law_id))
    ELSE IF response.net # "ok" THEN FetchResult(NoText, Error("network_error", law_id))
    ELSE IF response.status = 404 THEN FetchResult(NoText, Error("http_404", law_id))
    ELSE IF response.status = 406 THEN FetchResult(NoText, Error("http_406", law_id))
    ELSE IF response.status >= 400 THEN FetchResult(NoText, Error("http_error", law_id))
    ELSE LET parsed == parse_api_response(response.xml)
         IN  IF parsed.result_code # "0" THEN FetchResult(NoText, Error("api_error", law_id))
             ELSE IF parsed.app_data = None THEN FetchResult(NoText, Error("no_appldata", law_id))
             ELSE ExtractText(law_id, parsed.app_data)

\* ------------------------------------------------- Gemini interaction functions
\* What gemini_model.generate_content may do: answer with text, answer with
\* no parts and a finish reason, or raise.
LLMResponses ==
    { [parts |-> TRUE, reason |-> "STOP"], [parts |-> FALSE, reason |-> "SAFETY"],
      [parts |-> FALSE, reason |-> "raise"] }

Message(kind) == [kind |-> kind]

\* Whether get_gemini_summary reaches generate_content.
SummaryCallsLLM(enabled, text_content) == enabled /\ TextTruthy(text_content)

get_gemini_summary(enabled, text_content, llm) ==
    IF ~enabled THEN Message("ai_disabled")
    ELSE IF ~TextTruthy(text_content) THEN Message("no_text_to_summarize")
    ELSE IF llm.reason = "raise" THEN Message("summary_exception")
    ELSE IF llm.parts THEN [kind |-> "summary", of |-> text_content]
    ELSE [kind |-> "summary_failed", reason |-> llm.reason]

\* ChatCallsLLM with the context check (line 165) left out.
ChatCallsLLM_IgnoresContext(enabled, context) == enabled

\* Whether get_gemini_chat_response reaches generate_content.
ChatCallsLLM(enabled, context) == enabled /\ TextTruthy(context)

\* Lines 166-176: the system instruction carrying the context, the earlier
\* turns, then the question.
messages_for_api(context, history, user_question) ==
    [context |-> context, history |-> history, user_question |-> user_question]

get_gemini_chat_response(enabled, context, history, user_question, llm) ==
    IF ~enabled THEN Message("ai_disabled")
    ELSE IF ~TextTruthy(context) THEN Message("no_chat_context")
    ELSE IF llm.reason = "raise" THEN Message("chat_exception")
    ELSE IF llm.parts THEN [kind |-> "answer", question |-> user_question]
    ELSE IF llm.reason = "SAFETY" THEN Message("blocked_safety")
    ELSE IF llm.reason = "RECITATION" THEN Message("blocked_recitation")
    ELSE [kind |-> "chat_failed", reason |-> llm.reason]

\* ------------------------------------------------- citation helper functions
\* The answers and statute texts of this section are plain sequences of
\* characters.  One character stands for each class the two patterns tell
\* apart: "dai" for the ordinal prefix, "jo" for the article suffix, "no" for
\* the sub-article particle, "na" and "shi" for the two characters of the
\* sentinel, "x" and "," for any other character; the opening of the marker,
\* a fixed string, is the one character MARKER_OPEN.
KANJI_NUMERALS == {"ichi", "ni"}
ARABIC_DIGITS == {"1", "2"}
WHITESPACE == {" ", "\n"}
MARKER_OPEN == "[src:"
MARKER_CLOSE == "]"
SENTINEL_NONE == <<"na", "shi">>
\* None where a sequence of characters is expected.
NoSpan == <<"None">>

\* Python truthiness of an optional string.
StrTruthy(t) == t # NoSpan /\ t # <<>>

AllIn(t, from, to, S) == \A k \in from..to : t[k] \in S

\* str.strip() on a sequence of characters.
RECURSIVE StripText(_)
StripText(t) ==
    IF t # <<>> /\ Head(t) \in WHITESPACE THEN StripText(Tail(t))
    ELSE IF t # <<>> /\ t[Len(t)] \in WHITESPACE THEN StripText(SubSeq(t, 1, Len(t) - 1))
    ELSE t

\* The last position of the longest run of characters of S that starts at
\* p, p - 1 when there is none: a greedy S*.
RECURSIVE RunEnd(_, _, _)
RunEnd(t, p, S) == IF p <= Len(t) /\ t[p] \in S THEN RunEnd(t, p + 1, S) ELSE p - 1

\* (?:no[kanji]|[0-9]+)* matched greedily from p: the particle with ONE kanji
\* numeral, or a run of digits, repeated.  Returns the last position matched.
RECURSIVE SubArticleEnd(_, _)
SubArticleEnd(t, p) ==
    IF p + 1 <= Len(t) /\ t[p] = "no" /\ t[p + 1] \in KANJI_NUMERALS THEN SubArticleEnd(t, p + 2)
    ELSE IF p <= Len(t) /\ t[p] \in ARABIC_DIGITS THEN SubArticleEnd(t, RunEnd(t, p, ARABIC_DIGITS) + 1)
    ELSE p - 1

\* The article pattern of lines 206 and 218 matched at p: the last position
\* of the match, 0 when it does not match there.  Everything after the number
\* is optional, so the greedy match never backtracks.
ArticleEnd(t, p) ==
    IF ~(p + 1 <= Len(t) /\ t[p] = "dai" /\ t[p + 1] \in KANJI_NUMERALS \cup ARABIC_DIGITS) THEN 0
    ELSE LET n == IF t[p + 1] \in KANJI_NUMERALS
                  THEN RunEnd(t, p + 1, KANJI_NUMERALS) ELSE RunEnd(t, p + 1, ARABIC_DIGITS)
         IN  IF n + 1 <= Len(t) /\ t[n + 1] = "jo" THEN SubArticleEnd(t, n + 2) ELSE n

\* re.findall of the article pattern from p on: the matches left to right,
\* none overlapping.
RECURSIVE FindAll(_, _)
FindAll(t, p) ==
    IF p > Len(t) THEN <<>>
    ELSE IF ArticleEnd(t, p) = 0 THEN FindAll(t, p + 1)
    ELSE <<SubSeq(t, p, ArticleEnd(t, p))>> \o FindAll(t, ArticleEnd(t, p) + 1)

\* The ways the marker pattern of line 202 matches at i: <<a, b>> where the
\* first \s* ends at a and group 1, one or more characters other than a
\* newline, ends at b, whitespace alone standing between b and the closing
\* character.
MarkerMatches(t, i) ==
    IF t[i] # MARKER_OPEN THEN {}
    ELSE { ab \in (i..Len(t)) \X (i..Len(t)) :
             /\ ab[1] < ab[2]
             /\ AllIn(t, i + 1, ab[1], WHITESPACE)
             /\ \A k \in (ab[1] + 1)..ab[2] : t[k] # "\n"
             /\ \E c \in ab[2]..(Len(t) - 1) :
                    AllIn(t, ab[2] + 1, c, WHITESPACE) /\ t[c + 1] = MARKER_CLOSE }

\* Group 1 of the match the regex engine settles on at i: the first \s* is
\* greedy (the longest a), the group is lazy (then the shortest b).
MarkerGroup(t, i) ==
    LET a == CHOOSE a \in {ab[1] : ab \in MarkerMatches(t, i)} :
                 \A ab \in MarkerMatches(t, i) : ab[1] <= a
        b == CHOOSE b \in {ab[2] : ab \in {m \in MarkerMatches(t, i) : m[1] = a}} :
                 \A ab \in {m \in MarkerMatches(t, i) : m[1] = a} : b <= ab[2]
    IN  SubSeq(t, a + 1, b)

\* Lines 200-208.
extract_citations(ai_response_text) ==
    LET found == {i \in 1..Len(ai_response_text) : MarkerMatches(ai_response_text, i) # {}}
    IN  IF found = {} THEN <<>>
        ELSE LET first == CHOOSE i \in found : \A j \in found : i <= j
                 source_text == StripText(MarkerGroup(ai_response_text, first))
             IN  IF source_text # SENTINEL_NONE THEN FindAll(source_text, 1) ELSE <<>>

\* The positions at which the title stands literally in the text.
Occurrences(t, title) ==
    {p \in 1..(Len(t) - Len(title) + 1) : SubSeq(t, p, p + Len(title) - 1) = title}

\* (?:\s*\n)* matched greedily after position e: the last position of the
\* longest run of whitespace that ends in a newline, e when there is none.
BlankLinesEnd(t, e) ==
    CHOOSE w \in e..Len(t) :
        /\ AllIn(t, e + 1, w, WHITESPACE) /\ (w = e \/ t[w] = "\n")
        /\ \A v \in (w + 1)..Len(t) : ~(AllIn(t, e + 1, v, WHITESPACE) /\ t[v] = "\n")

\* .*? with re.DOTALL from position w on, up to the lookahead: the shortest
\* stretch after which the article pattern matches or the text ends.
RECURSIVE LazyEnd(_, _)
LazyEnd(t, w) == IF w >= Len(t) \/ ArticleEnd(t, w + 1) # 0 THEN w ELSE LazyEnd(t, w + 1)

\* find_article_text with the lazy .*? made greedy: the span runs to the end
\* of the text.
find_article_text_Greedy(full_law_text, article_title) ==
    IF ~StrTruthy(full_law_text) \/ ~StrTruthy(article_title) THEN NoSpan
    ELSE IF Occurrences(full_law_text, article_title) = {} THEN NoSpan
    ELSE LET p == CHOOSE p \in Occurrences(full_law_text, article_title) :
                     \A q \in Occurrences(full_law_text, article_title) : p <= q
         IN  StripText(SubSeq(full_law_text, p, Len(full_law_text)))

\* Lines 210-225.  re.search settles on the leftmost occurrence of the
\* escaped title; with re.DOTALL and the \Z alternative of the lookahead the
\* pattern matches wherever the title stands, so the fallback of lines
\* 222-225 finds nothing the pattern has not found.
find_article_text(full_law_text, article_title) ==
    IF ~StrTruthy(full_law_text) \/ ~StrTruthy(article_title) THEN NoSpan
    ELSE IF Occurrences(full_law_text, article_title) = {} THEN NoSpan
    ELSE LET p == CHOOSE p \in Occurrences(full_law_text, article_title) :
                     \A q \in Occurrences(full_law_text, article_title) : p <= q
             e == p + Len(article_title) - 1
         IN  StripText(SubSeq(full_law_text, p, LazyEnd(full_law_text, BlankLinesEnd(full_law_text, e))))

\* ------------------------------------------------------------------ filtering
Lower(c) == CASE c = "A" -> "a" [] c = "B" -> "b" [] c = "C" -> "c" [] c = "D" -> "d" [] OTHER -> c

\* Series.str.contains(query, case=False) for a query of letters.
Contains(value, query) ==
    \E i \in 0..(Len(value) - Len(query)) :
        \A j \in 1..Len(query) : Lower(value[i + j]) = Lower(query[j])

LAW_TYPES_REV(code) ==
    CASE code = 1 -> "All" [] code = 2 -> "Constitution/Law" [] code = 3 -> "Cabinet/Imperial Order"
      [] code = 4 -> "Ministerial Ordinance/Rule" [] OTHER -> "unknown"

\* A row of the DataFrame filter_laws returns (final_cols, line 237).
Row(law) ==
    [LawId |-> law.LawId, LawName |-> law.LawName, LawNumber |-> law.LawNumber,
     date |-> law.date, sort_key |-> law.sort_key, LawType |-> LAW_TYPES_REV(law.code)]

\* Passes with the date bounds skipped for a record that has no date.
Passes_KeepsUndated(law, name_query, num_query, keyword_query, date_from, date_to) ==
    /\ name_query # <<>> => Contains(law.LawName, name_query)
    /\ num_query # <<>> => Contains(law.LawNumber, num_query)
    /\ keyword_query # <<>> => (Contains(law.LawName, keyword_query) \/ Contains(law.LawNumber, keyword_query))
    /\ date_from # NoDate => (law.date = NoDate \/ law.date >= date_from)
    /\ date_to # NoDate => (law.date = NoDate \/ law.date <= date_to)

Passes(law, name_query, num_query, keyword_query, date_from, date_to) ==
    /\ name_query # <<>> => Contains(law.LawName, name_query)
    /\ num_query # <<>> => Contains(law.LawNumber, num_query)
    /\ keyword_query # <<>> => (Contains(law.LawName, keyword_query) \/ Contains(law.LawNumber, keyword_query))
    /\ date_from # NoDate => (law.date # NoDate /\ law.date >= date_from)
    /\ date_to # NoDate => (law.date # NoDate /\ law.date <= date_to)

RECURSIVE FilterRows(_, _, _, _, _, _)
FilterRows(laws, name_query, num_query, keyword_query, date_from, date_to) ==
    IF laws = <<>> THEN <<>>
    ELSE (IF Passes(Head(laws), name_query, num_query, keyword_query, date_from, date_to)
          THEN <<Row(Head(laws))>> ELSE <<>>)
         \o FilterRows(Tail(laws), name_query, num_query, keyword_query, date_from, date_to)

\* The empty DataFrame is the empty sequence of rows.
filter_laws(laws, name_query, num_query, keyword_query, date_from, date_to) ==
    IF laws = NoList \/ laws = <<>> THEN <<>>
    ELSE FilterRows(laws, name_query, num_query, keyword_query, date_from, date_to)

\* ------------------------------------------------------------ session state
\* One script run is one action.  rerun is TRUE when the last run ended in
\* st.rerun(): the next run then starts at once, with no widget event.
\* calls lists the calls to the registry and to the LLM made by the last run,
\* each with its argument and what it returned.  searched_law_type_code is a
\* history variable, no field of the session: the law type code the last
\* search was executed with (law_type_code_selected at line 279), 0 before
\* the first search.  No action reads it.
VARIABLES
    GEMINI_ENABLED,
    selected_law_type_name, name_query, num_query, keyword_query, date_from, date_to,
    search_results_raw, filtered_results_df, searched_law_type_code,
    sort_column, sort_ascending,
    summarize_law_id, current_summary, summary_loading,
    qa_law_id, qa_law_name, qa_law_context, qa_chat_history, qa_loading,
    rerun, calls

widgets == <<selected_law_type_name, name_query, num_query, keyword_query, date_from, date_to>>
results == <<search_results_raw, filtered_results_df, searched_law_type_code>>
sorting == <<sort_column, sort_ascending>>
summary == <<summarize_law_id, current_summary, summary_loading>>
qa == <<qa_law_id, qa_law_name, qa_law_context, qa_chat_history, qa_loading>>
vars == <<GEMINI_ENABLED, widgets, results, sorting, summary, qa, rerun, calls>>
\* Everything but the call log.
session == <<GEMINI_ENABLED, widgets, results, sorting, summary, qa, rerun>>

Call(fn, arg, ret) == [fn |-> fn, arg |-> arg, ret |-> ret]

Filters(name, num, keyword, from, to) ==
    [name_query |-> name, num_query |-> num, keyword_query |-> keyword, date_from |-> from, date_to |-> to]

\* The values the sidebar inputs take: the initial ones, one with each input
\* changed, and one with From after To.
FilterChoices ==
    { Filters(<<>>, <<>>, <<>>, NoDate, MaxDate),
      Filters(<<"a">>, <<>>, <<>>, NoDate, MaxDate),
      Filters(<<>>, <<"c">>, <<>>, NoDate, MaxDate),
      Filters(<<>>, <<>>, <<"A">>, NoDate, MaxDate),
      Filters(<<>>, <<>>, <<>>, MaxDate, MaxDate),
      Filters(<<>>, <<>>, <<>>, NoDate, 1),
      Filters(<<>>, <<>>, <<>>, MaxDate, 1) }

Questions == {"q1"}

Init ==
    /\ GEMINI_ENABLED \in BOOLEAN
    /\ selected_law_type_name = LAW_TYPE_ALL
    /\ name_query = <<>> /\ num_query = <<>> /\ keyword_query = <<>>
    /\ date_from = NoDate /\ date_to = MaxDate
    /\ search_results_raw = NoList
    /\ filtered_results_df = <<>>
    /\ searched_law_type_code = 0
    /\ sort_column = DEFAULT_ALL_TYPE_SORT_COLUMN
    /\ sort_ascending = DEFAULT_ALL_TYPE_SORT_ASCENDING
    /\ summarize_law_id = NoLaw /\ current_summary = None /\ summary_loading = FALSE
    \* qa_law_name is None; the empty name stands for it.
    /\ qa_law_id = NoLaw /\ qa_law_name = <<>> /\ qa_law_context = NoText
    /\ qa_chat_history = <<>> /\ qa_loading = FALSE
    /\ rerun = FALSE
    /\ calls = <<>>

\* Lines 248-249: the law type selector changes.
SelectLawType ==
    /\ ~rerun
    /\ \E code \in LAW_TYPE_CODES :
        /\ code # selected_law_type_name
        /\ selected_law_type_name' = code
    /\ calls' = <<>>
    /\ UNCHANGED <<GEMINI_ENABLED, name_query, num_query, keyword_query, date_from, date_to,
                   results, sorting, summary, qa, rerun>>

\* Lines 250-255: the text and date inputs change.
EditFilters ==
    /\ ~rerun
    /\ \E f \in FilterChoices :
        /\ f # Filters(name_query, num_query, keyword_query, date_from, date_to)
        /\ name_query' = f.name_query
        /\ num_query' = f.num_query
        /\ keyword_query' = f.keyword_query
        /\ date_from' = f.date_from
        /\ date_to' = f.date_to
    /\ calls' = <<>>
    /\ UNCHANGED <<GEMINI_ENABLED, selected_law_type_name, results, sorting, summary, qa, rerun>>

\* SearchOffered with the comparison of the two dates left out.
SearchOffered_AnyDates == TRUE

\* Lines 256-257: the search button is offered.
SearchOffered == ~(date_from # NoDate /\ date_to # NoDate /\ date_from > date_to)

ListCall(code, responses) ==
    Call("_fetch_specific_type", code, _fetch_specific_type(code, responses[code]))

ListCalls(code, responses) ==
    IF code = LAW_TYPE_ALL
    THEN [i \in 1..Len(SPECIFIC_LAW_TYPE_CODES) |-> ListCall(SPECIFIC_LAW_TYPE_CODES[i], responses)]
    ELSE <<ListCall(code, responses)>>

\* SearchTable with the date bounds left out of the filter call.
SearchTable_IgnoreDates(raw_laws) ==
    IF raw_laws # NoList
    THEN filter_laws(raw_laws, name_query, num_query, keyword_query, NoDate, NoDate)
    ELSE <<>>

\* Lines 281-282: the table a search stores for the list it fetched.
SearchTable(raw_laws) ==
    IF raw_laws # NoList
    THEN filter_laws(raw_laws, name_query, num_query, keyword_query, date_from, date_to)
    ELSE <<>>

\* ResetOnSearch with the Q&A context and history left in place.
ResetOnSearch_KeepQaSession ==
    /\ summarize_law_id' = NoLaw
    /\ current_summary' = None
    /\ qa_law_id' = NoLaw
    /\ UNCHANGED <<qa_chat_history, qa_law_context>>

\* Line 275: the session state a search resets before it fetches.
ResetOnSearch ==
    /\ summarize_law_id' = NoLaw
    /\ current_summary' = None
    /\ qa_law_id' = NoLaw
    /\ qa_chat_history' = <<>>
    /\ qa_law_context' = NoText

\* Lines 274-282: the search button is pressed, the registry answering the
\* listings of the codes 2, 3 and 4 with r2, r3 and r4.
SearchExecution(r2, r3, r4) ==
    /\ ~rerun
    /\ SearchOffered
    /\ LET responses == [code \in {2, 3, 4} |-> CASE code = 2 -> r2 [] code = 3 -> r3 [] OTHER -> r4]
           raw_laws == fetch_law_list(selected_law_type_name, responses).laws
       IN  /\ search_results_raw' = raw_laws
           /\ filtered_results_df' = SearchTable(raw_laws)
           /\ calls' = ListCalls(selected_law_type_name, responses)
    /\ searched_law_type_code' = selected_law_type_name
    /\ sort_column' = IF selected_law_type_name = LAW_TYPE_ALL
                      THEN DEFAULT_ALL_TYPE_SORT_COLUMN ELSE DEFAULT_SPECIFIC_TYPE_SORT_COLUMN
    /\ sort_ascending' = IF selected_law_type_name = LAW_TYPE_ALL
                         THEN DEFAULT_ALL_TYPE_SORT_ASCENDING ELSE DEFAULT_SPECIFIC_TYPE_SORT_ASCENDING
    /\ ResetOnSearch
    /\ UNCHANGED <<GEMINI_ENABLED, widgets, summary_loading, qa_law_name, qa_loading, rerun>>

Search ==
    \E r2 \in ListResponses(2), r3 \in ListResponses(3), r4 \in ListResponses(4) :
        SearchExecution(r2, r3, r4)

\* Lines 286-297: a run that finds the summary loading flag set.
SummaryLoadingBlock(fetched, llm) ==
    /\ current_summary' =
           IF fetched.error # None THEN [kind |-> "fetch_error", error |-> fetched.error]
           ELSE IF TextTruthy(fetched.text) THEN get_gemini_summary(GEMINI_ENABLED, fetched.text, llm)
           ELSE Message("law_text_empty")
    /\ summary_loading' = FALSE
    /\ calls' = <<Call("fetch_law_data_for_ai", summarize_law_id, fetched)>>
                \o (IF fetched.error = None /\ TextTruthy(fetched.text)
                       /\ SummaryCallsLLM(GEMINI_ENABLED, fetched.text)
                    THEN <<Call("generate_content", summarize_law_id, llm)>> ELSE <<>>)
    /\ rerun' = TRUE
    /\ UNCHANGED <<GEMINI_ENABLED, widgets, results, sorting, summarize_law_id, qa>>

LoadSummary ==
    /\ rerun
    /\ summary_loading /\ summarize_law_id # NoLaw
    /\ \E response \in DataResponses(summarize_law_id), llm \in LLMResponses :
        SummaryLoadingBlock(fetch_law_data_for_ai(summarize_law_id, response), llm)

\* QaLoadingBlock with the loading flag left set in the error branch.
QaLoadingBlock_LoadingStaysOnError(fetched) ==
    /\ IF fetched.error # None
       THEN qa_law_id' = NoLaw /\ UNCHANGED <<qa_law_context, qa_loading>>
       ELSE IF TextTruthy(fetched.text)
       THEN qa_law_context' = fetched.text /\ qa_loading' = FALSE /\ UNCHANGED qa_law_id
       ELSE qa_law_id' = NoLaw /\ qa_loading' = FALSE /\ UNCHANGED qa_law_context
    /\ calls' = <<Call("fetch_law_data_for_ai", qa_law_id, fetched)>>
    /\ rerun' = TRUE
    /\ UNCHANGED <<GEMINI_ENABLED, widgets, results, sorting, summary, qa_law_name, qa_chat_history>>

\* Lines 299-315: a run that finds the Q&A loading flag set.
QaLoadingBlock(fetched) ==
    /\ IF fetched.error # None
       THEN qa_law_id' = NoLaw /\ UNCHANGED qa_law_context
       ELSE IF TextTruthy(fetched.text)
       THEN qa_law_context' = fetched.text /\ UNCHANGED qa_law_id
       ELSE qa_law_id' = NoLaw /\ UNCHANGED qa_law_context
    /\ qa_loading' = FALSE
    /\ calls' = <<Call("fetch_law_data_for_ai", qa_law_id, fetched)>>
    /\ rerun' = TRUE
    /\ UNCHANGED <<GEMINI_ENABLED, widgets, results, sorting, summary, qa_law_name, qa_chat_history>>

LoadQa ==
    /\ rerun
    /\ ~(summary_loading /\ summarize_law_id # NoLaw)
    /\ qa_loading /\ qa_law_id # NoLaw
    /\ \E response \in DataResponses(qa_law_id) :
        QaLoadingBlock(fetch_law_data_for_ai(qa_law_id, response))

\* A run started by st.rerun() with neither loading block to enter: the page
\* is drawn and waits for the next event.
Render ==
    /\ rerun
    /\ ~(summary_loading /\ summarize_law_id # NoLaw)
    /\ ~(qa_loading /\ qa_law_id # NoLaw)
    /\ rerun' = FALSE
    /\ calls' = <<>>
    /\ UNCHANGED <<GEMINI_ENABLED, widgets, results, sorting, summary, qa>>

\* Line 326: the close button of the summary panel.
close_summary ==
    /\ ~rerun
    /\ summarize_law_id # NoLaw /\ ~summary_loading
    /\ summarize_law_id' = NoLaw
    /\ current_summary' = None
    /\ rerun' = TRUE
    /\ calls' = <<>>
    /\ UNCHANGED <<GEMINI_ENABLED, widgets, results, sorting, summary_loading, qa>>

Turn(role, content) == [role |-> role, content |-> content]

\* EarlierTurns with the question just appended left in the history.
EarlierTurns_WithQuestion(history) == history

\* Line 351, qa_chat_history[:-1]: the history without the question just
\* appended.
EarlierTurns(history) == SubSeq(history, 1, Len(history) - 1)

\* Lines 345-354: a question is submitted in the chat input.
chat_input ==
    /\ ~rerun
    /\ qa_law_id # NoLaw /\ ~qa_loading
    /\ qa_law_context # NoText
    /\ Len(qa_chat_history) < 2 * MaxTurns
    /\ \E prompt \in Questions, llm \in LLMResponses :
        LET asked == Append(qa_chat_history, Turn("user", [kind |-> "question", text |-> prompt]))
            history == EarlierTurns(asked)
            response_text == get_gemini_chat_response(GEMINI_ENABLED, qa_law_context, history, prompt, llm)
        IN  /\ qa_chat_history' = Append(asked, Turn("assistant", response_text))
            /\ calls' = IF ChatCallsLLM(GEMINI_ENABLED, qa_law_context)
                        THEN <<Call("generate_content",
                                    messages_for_api(qa_law_context, history, prompt), llm)>>
                        ELSE <<>>
    /\ rerun' = TRUE
    /\ UNCHANGED <<GEMINI_ENABLED, widgets, results, sorting, summary, qa_law_id, qa_law_name,
                   qa_law_context, qa_loading>>

\* Line 355: the close button of the Q&A panel.
close_qa ==
    /\ ~rerun
    /\ qa_law_id # NoLaw /\ ~qa_loading
    /\ qa_law_id' = NoLaw
    /\ qa_law_name' = <<>>
    /\ qa_law_context' = NoText
    /\ qa_chat_history' = <<>>
    /\ rerun' = TRUE
    /\ calls' = <<>>
    /\ UNCHANGED <<GEMINI_ENABLED, widgets, results, sorting, summary, qa_loading>>

\* SortButton with every newly chosen key starting ascending.
SortButton_AlwaysAscending(sort_key) ==
    /\ IF sort_column = sort_key
       THEN sort_ascending' = ~sort_ascending /\ UNCHANGED sort_column
       ELSE sort_column' = sort_key /\ sort_ascending' = TRUE
    /\ rerun' = TRUE
    /\ calls' = <<>>
    /\ UNCHANGED <<GEMINI_ENABLED, widgets, results, summary, qa>>

\* Lines 367-373: a sort button of the table header.
SortButton(sort_key) ==
    /\ IF sort_column = sort_key
       THEN sort_ascending' = ~sort_ascending /\ UNCHANGED sort_column
       ELSE sort_column' = sort_key /\ sort_ascending' = (sort_key # COL_DATE)
    /\ rerun' = TRUE
    /\ calls' = <<>>
    /\ UNCHANGED <<GEMINI_ENABLED, widgets, results, summary, qa>>

Sort ==
    /\ ~rerun
    /\ filtered_results_df # <<>>
    /\ \E sort_key \in SORTABLE_COLUMNS : SortButton(sort_key)

\* ord() of a letter.
Ord(c) ==
    CASE c = "A" -> 65 [] c = "B" -> 66 [] c = "C" -> 67 [] c = "D" -> 68
      [] c = "a" -> 97 [] c = "b" -> 98 [] c = "c" -> 99 [] c = "d" -> 100 [] OTHER -> 0

\* s < t for two strings.
RECURSIVE StrLess(_, _)
StrLess(s, t) ==
    IF t = <<>> THEN FALSE
    ELSE IF s = <<>> THEN TRUE
    ELSE IF Head(s) # Head(t) THEN Ord(Head(s)) < Ord(Head(t))
    ELSE StrLess(Tail(s), Tail(t))

\* sort_values(by=col, ascending=asc, na_position='last') must put row a
\* before row b: its key is the smaller one (the larger one when
\* descending), or b has no date and a has one.
Precedes(a, b, col, asc) ==
    CASE col = TYPE_SORT_KEY -> IF asc THEN a.sort_key < b.sort_key ELSE b.sort_key < a.sort_key
      [] col = COL_DATE ->
            IF a.date = NoDate THEN FALSE
            ELSE IF b.date = NoDate THEN TRUE
            ELSE IF asc THEN a.date < b.date ELSE b.date < a.date
      [] col = COL_NAME ->
            IF asc THEN StrLess(a.LawName, b.LawName) ELSE StrLess(b.LawName, a.LawName)
      [] OTHER ->
            IF asc THEN StrLess(a.LawNumber, b.LawNumber) ELSE StrLess(b.LawNumber, a.LawNumber)

\* The orders sort_values may give: the default sort kind is not stable, so
\* rows with equal keys come in any order.
SortValues(df, col, asc) ==
    { [i \in 1..Len(df) |-> df[p[i]]] :
        p \in { q \in Permutations(1..Len(df)) :
                  \A i, j \in 1..Len(df) : i < j => ~Precedes(df[q[j]], df[q[i]], col, asc) } }

\* Lines 378-385: the orders the table may be displayed in.
sorted_df ==
    IF sort_column \in SORTABLE_COLUMNS
    THEN SortValues(filtered_results_df, sort_column, sort_ascending)
    ELSE IF selected_law_type_name = LAW_TYPE_ALL
    THEN SortValues(filtered_results_df, DEFAULT_ALL_TYPE_SORT_COLUMN, DEFAULT_ALL_TYPE_SORT_ASCENDING)
    ELSE SortValues(filtered_results_df, DEFAULT_SPECIFIC_TYPE_SORT_COLUMN,
                    DEFAULT_SPECIFIC_TYPE_SORT_ASCENDING)

\* Lines 375-377: the default order button.
reset_sort ==
    /\ ~rerun
    /\ filtered_results_df # <<>>
    /\ sort_column' = IF selected_law_type_name = LAW_TYPE_ALL
                      THEN DEFAULT_ALL_TYPE_SORT_COLUMN ELSE DEFAULT_SPECIFIC_TYPE_SORT_COLUMN
    /\ sort_ascending' = IF selected_law_type_name = LAW_TYPE_ALL
                         THEN DEFAULT_ALL_TYPE_SORT_ASCENDING ELSE DEFAULT_SPECIFIC_TYPE_SORT_ASCENDING
    /\ rerun' = TRUE
    /\ calls' = <<>>
    /\ UNCHANGED <<GEMINI_ENABLED, widgets, results, summary, qa>>

\* Line 403: the summary button of a row is disabled.
disable_summary(law_id) ==
    \/ summary_loading /\ summarize_law_id = law_id
    \/ qa_loading /\ qa_law_id = law_id
    \/ summarize_law_id = law_id /\ ~summary_loading

\* Line 407: the question button of a row is disabled.
disable_qa(law_id) ==
    \/ summary_loading /\ summarize_law_id = law_id
    \/ qa_loading /\ qa_law_id = law_id
    \/ qa_law_id = law_id /\ ~qa_loading

\* SummaryButton with the Q&A target left in place.
SummaryButton_KeepQa(law_id) ==
    /\ qa_chat_history' = <<>>
    /\ summarize_law_id' = law_id
    /\ current_summary' = None
    /\ summary_loading' = TRUE
    /\ rerun' = TRUE
    /\ calls' = <<>>
    /\ UNCHANGED <<GEMINI_ENABLED, widgets, results, sorting, qa_law_id, qa_law_name, qa_law_context,
                   qa_loading>>

\* SummaryButton with the previous summary left in place.
SummaryButton_KeepSummary(law_id) ==
    /\ qa_law_id' = NoLaw
    /\ qa_chat_history' = <<>>
    /\ summarize_law_id' = law_id
    /\ summary_loading' = TRUE
    /\ rerun' = TRUE
    /\ calls' = <<>>
    /\ UNCHANGED <<GEMINI_ENABLED, widgets, results, sorting, current_summary, qa_law_name,
                   qa_law_context, qa_loading>>

\* Line 404: the handler of a row's summary button.
SummaryButton(law_id) ==
    /\ qa_law_id' = NoLaw
    /\ qa_chat_history' = <<>>
    /\ summarize_law_id' = law_id
    /\ current_summary' = None
    /\ summary_loading' = TRUE
    /\ rerun' = TRUE
    /\ calls' = <<>>
    /\ UNCHANGED <<GEMINI_ENABLED, widgets, results, sorting, qa_law_name, qa_law_context, qa_loading>>

Summarize ==
    /\ ~rerun
    /\ GEMINI_ENABLED
    /\ \E i \in 1..Len(filtered_results_df) :
        LET law_id == filtered_results_df[i].LawId
        IN  /\ law_id # NoLaw
            /\ ~disable_summary(law_id)
            /\ SummaryButton(law_id)

\* QaButton with the summary panel left in place.
QaButton_KeepSummary(law_id, law_name_text) ==
    /\ qa_law_id' = law_id
    /\ qa_law_name' = law_name_text
    /\ qa_chat_history' = <<>>
    /\ qa_law_context' = NoText
    /\ qa_loading' = TRUE
    /\ rerun' = TRUE
    /\ calls' = <<>>
    /\ UNCHANGED <<GEMINI_ENABLED, widgets, results, sorting, summary>>

\* QaButton with the chat history left in place.
QaButton_KeepHistory(law_id, law_name_text) ==
    /\ summarize_law_id' = NoLaw
    /\ current_summary' = None
    /\ qa_law_id' = law_id
    /\ qa_law_name' = law_name_text
    /\ qa_law_context' = NoText
    /\ qa_loading' = TRUE
    /\ rerun' = TRUE
    /\ calls' = <<>>
    /\ UNCHANGED <<GEMINI_ENABLED, widgets, results, sorting, summary_loading, qa_chat_history>>

\* Line 408: the handler of a row's question button.
QaButton(law_id, law_name_text) ==
    /\ summarize_law_id' = NoLaw
    /\ current_summary' = None
    /\ qa_law_id' = law_id
    /\ qa_law_name' = law_name_text
    /\ qa_chat_history' = <<>>
    /\ qa_law_context' = NoText
    /\ qa_loading' = TRUE
    /\ rerun' = TRUE
    /\ calls' = <<>>
    /\ UNCHANGED <<GEMINI_ENABLED, widgets, results, sorting, summary_loading>>

Ask ==
    /\ ~rerun
    /\ GEMINI_ENABLED
    /\ \E i \in 1..Len(filtered_results_df) :
        LET law_id == filtered_results_df[i].LawId
        IN  /\ law_id # NoLaw
            /\ ~disable_qa(law_id)
            /\ QaButton(law_id, filtered_results_df[i].LawName)

Next ==
    \/ SelectLawType
    \/ EditFilters
    \/ Search
    \/ LoadSummary
    \/ LoadQa
    \/ Render
    \/ close_summary
    \/ chat_input
    \/ close_qa
    \/ Sort
    \/ reset_sort
    \/ Summarize
    \/ Ask

Spec == Init /\ [][Next]_vars

\* ----------------------------------------------- search and display on their own
\* SearchSpec follows the sidebar, the search and the table header alone, with
\* a registry that may also list a category's entries without a promulgation
\* date.
UndatedEntries(entries) ==
    [i \in 1..Len(entries) |-> [entries[i] EXCEPT !.PromulgationDate = 0]]

ListResponsesWithUndated(code) ==
    ListResponses(code)
        \cup {Http("ok", 200, Xml(TRUE, "0", ApplData(UndatedEntries(EntriesFrom(1, code)), <<>>)))}

SearchAny ==
    \E r2 \in ListResponsesWithUndated(2), r3 \in ListResponsesWithUndated(3),
       r4 \in ListResponsesWithUndated(4) :
        SearchExecution(r2, r3, r4)

SearchNext ==
    \/ SelectLawType
    \/ EditFilters
    \/ SearchAny
    \/ Render
    \/ Sort
    \/ reset_sort

SearchSpec == Init /\ [][SearchNext]_vars

\* ------------------------------------------------- the cached extractor
\* CacheSpec follows the calls of fetch_law_data_for_ai through its
\* st.cache_data(ttl=3600) wrapper.  The cache outlives the script runs, so
\* here calls keeps every call made so far: the law id, the time of the call
\* in seconds, the exchange with the registry the call made (None when the
\* wrapper answered from its store) and what the call returned.  The store
\* of the wrapper is what these calls left in it.
CachedCall(law_id, at, request, ret) ==
    Call("fetch_law_data_for_ai", [law_id |-> law_id, at |-> at, request |-> request], ret)

\* The time of the latest call.
Now(log) == IF log = <<>> THEN 0 ELSE log[Len(log)].arg.at

\* CacheEntry keeping only the results that carry a text.
CacheEntry_ErrorsNotKept(log, law_id, at) ==
    LET ran == {i \in 1..Len(log) : /\ log[i].arg.law_id = law_id
                                    /\ log[i].arg.request # None
                                    /\ log[i].ret.error = None}
    IN  IF ran = {} THEN None
        ELSE LET last == CHOOSE i \in ran : \A k \in ran : k <= i
             IN  IF at - log[last].arg.at < TTL THEN [value |-> log[last].ret] ELSE None

\* The entry the store holds for law_id at a time: what the latest call
\* that ran the function returned, text or error alike, until TTL seconds
\* after that call; None before the first such call and after the entry
\* has expired.  Reading an entry does not renew it.
CacheEntry(log, law_id, at) ==
    LET ran == {i \in 1..Len(log) : log[i].arg.law_id = law_id /\ log[i].arg.request # None}
    IN  IF ran = {} THEN None
        ELSE LET last == CHOOSE i \in ran : \A k \in ran : k <= i
             IN  IF at - log[last].arg.at < TTL THEN [value |-> log[last].ret] ELSE None

\* Lines 98-99: a call of the wrapped function, one second or one second
\* less than the TTL after the call before it.
CachedFetch ==
    /\ Len(calls) < MaxCalls
    /\ \E law_id \in 1..NumLaws, delay \in {1, TTL - 1} :
        LET at == Now(calls) + delay
            entry == CacheEntry(calls, law_id, at)
        IN  IF entry # None
            THEN calls' = Append(calls, CachedCall(law_id, at, None, entry.value))
            ELSE \E response \in DataResponses(law_id) :
                    calls' = Append(calls, CachedCall(law_id, at, response,
                                                      fetch_law_data_for_ai(law_id, response)))
    /\ UNCHANGED session

CacheSpec == Init /\ [][CachedFetch]_vars

\* ------------------------------------------------ the functions on their own
\* FunctionSpec applies one function per step to inputs drawn from the sets
\* below, which hold more than the registry of Spec serves, and records the
\* call, its arguments and its return value in calls.  The session state is
\* not touched, and a behaviour is one application: the functions keep no
\* state between calls.
SeqsUpTo(S, n) == UNION {[1..k -> S] : k \in 0..n}

\* The payloads a response may carry: none, a listing, a statute body.
Payloads ==
    {None} \cup {ApplData(EntriesFrom(1, code), <<>>) : code \in {2, 3, 4}}
           \cup {ApplData(<<>>, LawElements(id)) : id \in 1..NumLaws}

\* Response bodies: unparsable or parsable, the Result/Code node missing,
\* "0" or "1", with and without ApplData.
XmlDocuments == {Xml(w, code, a) : w \in BOOLEAN, code \in {"", "0", "1"}, a \in Payloads}

\* Exchanges: a connection error, or a status line with a body.
Exchanges(documents) ==
    {Http("error", 0, NoXml)}
        \cup {Http("ok", status, xml) : status \in {200, 404, 406, 500}, xml \in documents}

\* Lines 45-60 applied to a response body.
ApplyParse ==
    /\ calls = <<>>
    /\ \E xml \in XmlDocuments :
        calls' = <<Call("parse_api_response", [xml |-> xml], parse_api_response(xml))>>
    /\ UNCHANGED session

\* Lines 62-78 applied to a law type code and the exchange it meets.
ApplyFetchType ==
    /\ calls = <<>>
    /\ \E law_type_code \in {2, 3, 4}, response \in Exchanges(XmlDocuments) :
        calls' = <<Call("_fetch_specific_type",
                        [law_type_code |-> law_type_code, response |-> response],
                        _fetch_specific_type(law_type_code, response))>>
    /\ UNCHANGED session

\* What GET /lawlists/{code} may answer in FunctionSpec: the answers of
\* ListResponses, a success code without ApplData and a server error.
ListExchanges(code) ==
    ListResponses(code) \cup {Http("ok", 200, Xml(TRUE, "0", None)), Http("ok", 500, NoXml)}

\* Lines 80-96 applied to a law type code: the listing calls it makes, in
\* order, then its own return.
ApplyFetchList ==
    /\ calls = <<>>
    /\ \E code \in LAW_TYPE_CODES :
       \E r2 \in ListExchanges(2), r3 \in ListExchanges(3), r4 \in ListExchanges(4) :
        LET responses == [c \in {2, 3, 4} |-> CASE c = 2 -> r2 [] c = 3 -> r3 [] OTHER -> r4]
        IN  calls' = ListCalls(code, responses)
                     \o <<Call("fetch_law_list", [requested_law_type_code |-> code],
                               fetch_law_list(code, responses))>>
    /\ UNCHANGED session

\* The elements a statute body is built from in FunctionSpec: allow-listed
\* ones with a text, with a blank text and with none, one outside the allow
\* list, and the raw full text field with a text, blank and with none.
ElementPool ==
    { Element("Sentence", <<Run(Space, 1), Run(1, 2), Run(Newline, 2), Run(2, 1)>>),
      Element("ItemSentence", <<Run(Newline, 1), Run(Space, 2)>>),
      Element("LawTitle", NoText),
      Element("TOC", <<Run(3, 2)>>),
      Element("LawFullText", <<Run(Space, 2), Run(4, 3), Run(Newline, 1), Run(Space, 1), Run(5, 1)>>),
      Element("LawFullText", <<Run(Space, 1), Run(Newline, 1)>>),
      Element("LawFullText", NoText) }

\* Statute bodies: those of the registry and every short list of pool elements.
Bodies ==
    {ApplData(<<>>, elements) : elements \in SeqsUpTo(ElementPool, MaxElements)}
        \cup {ApplData(<<>>, LawElements(id)) : id \in 1..NumLaws}

\* What GET /lawdata/{law_id} may answer in FunctionSpec.
TextExchanges ==
    {Http("ok", 200, Xml(TRUE, "0", body)) : body \in Bodies} \cup Exchanges(XmlDocuments)

\* Lines 98-132 applied to a law id, the empty one included, and the
\* exchange it meets.
ApplyFetchText ==
    /\ calls = <<>>
    /\ \E law_id \in 0..NumLaws, response \in TextExchanges :
        calls' = <<Call("fetch_law_data_for_ai", [response |-> response, law_id |-> law_id],
                        fetch_law_data_for_ai(law_id, response))>>
    /\ UNCHANGED session

\* A listed record with the promulgation date text replaced.
DatedRecord(id, text) ==
    LawRecord([ListEntry(id) EXCEPT !.PromulgationDate = text], CategoryOf(id))

\* Lines 228-239 applied to short lists of records, dated and undated, and
\* to every pair of date bounds, set or not, with and without a name query.
ApplyFilter ==
    /\ calls = <<>>
    /\ \E laws \in SeqsUpTo({DatedRecord(id, text) : id \in 1..NumLaws, text \in 0..MaxDate}, MaxRows),
          name \in {<<>>, <<"a">>}, from \in 0..MaxDate, to \in 0..MaxDate :
        calls' = <<Call("filter_laws",
                        [laws |-> laws, name_query |-> name, num_query |-> <<>>,
                         keyword_query |-> <<>>, date_from |-> from, date_to |-> to],
                        filter_laws(laws, name, <<>>, <<>>, from, to))>>
    /\ UNCHANGED session

\* The texts handed to the LLM functions in FunctionSpec: None, the empty
\* text and a text.
LLMInputs == {NoText, <<>>, <<Run(1, 2)>>}

\* Lines 137-161 applied to a text, configured or not: the call, then the
\* request to the LLM when the function reaches generate_content.
ApplySummary ==
    /\ calls = <<>>
    /\ \E text_content \in LLMInputs, llm \in LLMResponses :
        calls' = <<Call("get_gemini_summary", [text_content |-> text_content],
                        get_gemini_summary(GEMINI_ENABLED, text_content, llm))>>
                 \o (IF SummaryCallsLLM(GEMINI_ENABLED, text_content)
                     THEN <<Call("generate_content", text_content, llm)>> ELSE <<>>)
    /\ UNCHANGED session

\* Lines 163-196 applied to a context and a question, configured or not.
ApplyChat ==
    /\ calls = <<>>
    /\ \E context \in LLMInputs, prompt \in Questions, llm \in LLMResponses :
        calls' = <<Call("get_gemini_chat_response",
                        messages_for_api(context, <<>>, prompt),
                        get_gemini_chat_response(GEMINI_ENABLED, context, <<>>, prompt, llm))>>
                 \o (IF ChatCallsLLM(GEMINI_ENABLED, context)
                     THEN <<Call("generate_content", messages_for_api(context, <<>>, prompt), llm)>>
                     ELSE <<>>)
    /\ UNCHANGED session

\* What FunctionSpec builds statute texts from: two article titles, a
\* character of a body, whitespace, and the ordinal prefix on its own.
TextPieces ==
    { <<"dai", "1", "jo">>, <<"dai", "ni", "jo">>, <<"x">>, <<" ">>, <<"\n">>, <<"dai">> }

\* Lines 210-225 applied to None, the empty text and every text of up to
\* MaxPieces pieces, and to a title that is None, empty, an article title or
\* a character of a body.
ApplyFind ==
    /\ calls = <<>>
    /\ \E full_law_text \in {NoSpan} \cup {Extend(pieces) : pieces \in SeqsUpTo(TextPieces, MaxPieces)},
          article_title \in {NoSpan, <<>>, <<"dai", "1", "jo">>, <<"dai", "ni", "jo">>, <<"x">>} :
        calls' = <<Call("find_article_text",
                        [full_law_text |-> full_law_text, article_title |-> article_title],
                        find_article_text(full_law_text, article_title))>>
    /\ UNCHANGED session

\* What FunctionSpec builds the content of a citation marker from: an
\* article in Arabic and in kanji numerals, the sub-article particle, a
\* numeral of each kind and a separator.
CitationPieces ==
    { <<"dai", "1", "jo">>, <<"dai", "ichi", "jo">>, <<"no">>, <<"1">>, <<"ichi">>, <<",">> }

\* The answers of the LLM in FunctionSpec: with no marker, or with one that
\* holds the sentinel or up to MaxPieces pieces, padded with spaces or not;
\* with articles named before and after the marker, or with none.
Answers ==
    LET contents == {SENTINEL_NONE} \cup {Extend(pieces) : pieces \in SeqsUpTo(CitationPieces, MaxPieces)}
        markers == {<<>>} \cup { <<MARKER_OPEN>> \o pad \o content \o pad \o <<MARKER_CLOSE>> :
                                   pad \in {<<>>, <<" ">>}, content \in contents }
    IN  {marker : marker \in markers}
            \cup {<<"dai", "2", "jo", " ">> \o marker \o <<" ", "dai", "ni", "jo">> : marker \in markers}

\* Lines 200-208 applied to an answer.
ApplyExtract ==
    /\ calls = <<>>
    /\ \E ai_response_text \in Answers :
        calls' = <<Call("extract_citations", [ai_response_text |-> ai_response_text],
                        extract_citations(ai_response_text))>>
    /\ UNCHANGED session

FunctionNext ==
    \/ ApplyParse
    \/ ApplyFetchType
    \/ ApplyFetchList
    \/ ApplyFetchText
    \/ ApplyFilter
    \/ ApplySummary
    \/ ApplyChat
    \/ ApplyFind
    \/ ApplyExtract

FunctionSpec == Init /\ [][FunctionNext]_vars

\* ---------------------------------------------------------------- properties
\* The run that produced the current state was a search for one concrete code.
SingleCategorySearched == Len(calls) = 1 /\ calls[1].fn = "_fetch_specific_type"
\* The run that produced the current state called the full text extractor first.
FetchedText == Len(calls) >= 1 /\ calls[1].fn = "fetch_law_data_for_ai"
CallsTo(cs, fn) == {i \in 1..Len(cs) : cs[i].fn = fn}
TableIds == {filtered_results_df[i].LawId : i \in 1..Len(filtered_results_df)}
\* The texts the extractor can return for a statute.
TextsOf(law_id) ==
    {fetch_law_data_for_ai(law_id, response).text : response \in DataResponses(law_id)} \ {NoText}

\* C1: after a search for a single concrete category whose listing came back
\* non-empty, the raw result set is that listing and the table is the filter
\* applied to it; the raw result is None only when the listing is empty.
C1_SingleCategoryRaw ==
    SingleCategorySearched =>
        IF calls[1].ret # <<>>
        THEN /\ search_results_raw = calls[1].ret
             /\ filtered_results_df =
                    filter_laws(calls[1].ret, name_query, num_query, keyword_query, date_from, date_to)
        ELSE search_results_raw = NoList

\* C2: every text fetch_law_data_for_ai returns without an error is at most
\* MAX_CHARS characters long.
C2_TextWithinCap ==
    \A i \in CallsTo(calls, "fetch_law_data_for_ai") :
        calls[i].ret.error = None => SLen(calls[i].ret.text) <= MAX_CHARS

\* C3: at most one of summarize_law_id and qa_law_id is set.
C3_OnePanel == ~(summarize_law_id # NoLaw /\ qa_law_id # NoLaw)

\* C3 witness: a summary was selected after a Q&A session had fetched its
\* context.
C3_Witness == summarize_law_id # NoLaw /\ qa_law_id = NoLaw /\ qa_law_context # NoText

\* C4: selecting summarize on a record leaves no Q&A state: no Q&A target,
\* an empty history, no context; the summary target is the record, no summary
\* is held and the summary loading flag is set.
C4_SummarizeClearsQa ==
    [][Summarize =>
          /\ qa_law_id' = NoLaw
          /\ qa_chat_history' = <<>>
          /\ qa_law_context' = NoText
          /\ summarize_law_id' \in TableIds
          /\ current_summary' = None
          /\ summary_loading']_vars

\* C5: closing either panel leaves both targets, the summary and the context
\* None and the history empty.
C5_CloseDiscardsAll ==
    [][(close_summary \/ close_qa) =>
          /\ summarize_law_id' = NoLaw
          /\ current_summary' = None
          /\ qa_law_id' = NoLaw
          /\ qa_law_context' = NoText
          /\ qa_chat_history' = <<>>]_vars

\* C6: when the extractor finds no text for the record being summarized, the
\* summary is the fixed "no text to summarize" message and the LLM is not
\* called.
C6_NoTextMessage ==
    (summarize_law_id # NoLaw /\ FetchedText /\ calls[1].ret.error.kind = "no_text") =>
        /\ current_summary \in {Message("no_text_to_summarize"), Message("law_text_empty")}
        /\ CallsTo(calls, "generate_content") = {}

\* C7 as stated: in every state the table is the filter applied to the raw
\* result set with the current values of the filter inputs.
C7_TableFollowsFilters ==
    filtered_results_df =
        filter_laws(search_results_raw, name_query, num_query, keyword_query, date_from, date_to)

\* C7 as amended: a search stores the filter applied to the raw result set it
\* fetched with the filter values of that run, and no other run changes the
\* raw result set or the table.
C7_TableFollowsLastSearch ==
    [][IF CallsTo(calls', "_fetch_specific_type") # {}
       THEN filtered_results_df' =
                filter_laws(search_results_raw', name_query', num_query', keyword_query',
                            date_from', date_to')
       ELSE UNCHANGED results]_vars

\* C7 witness: a table is shown that the current filter values would not give.
C7_Witness ==
    /\ filtered_results_df # <<>>
    /\ filtered_results_df #
           filter_laws(search_results_raw, name_query, num_query, keyword_query, date_from, date_to)

\* C8: selecting ask clears the summary state and enters the Q&A loading
\* state with an empty history and no context, calling nothing; the next run
\* calls the extractor once and nothing else, and when the fetch succeeds the
\* Q&A panel is active for the same record with the fetched text as context.
C8_AskFlow ==
    [][/\ Ask =>
            /\ summarize_law_id' = NoLaw /\ current_summary' = None
            /\ qa_law_id' \in TableIds /\ qa_loading'
            /\ qa_chat_history' = <<>> /\ qa_law_context' = NoText
            /\ calls' = <<>>
       /\ (qa_loading /\ qa_law_id # NoLaw) =>
            /\ Len(calls') = 1
            /\ calls'[1].fn = "fetch_law_data_for_ai" /\ calls'[1].arg = qa_law_id
            /\ calls'[1].ret.error = None =>
                  /\ qa_law_id' = qa_law_id /\ ~qa_loading'
                  /\ qa_law_context' = calls'[1].ret.text
                  /\ qa_chat_history' = <<>>
                  /\ summarize_law_id' = NoLaw /\ current_summary' = None]_vars

\* C8 witness: the Q&A panel is active with a fetched context.
C8_Witness ==
    /\ qa_law_id # NoLaw /\ ~qa_loading /\ TextTruthy(qa_law_context)
    /\ FetchedText /\ calls[1].arg = qa_law_id

\* A summary value belongs to a statute: a fetch error names it, a summary
\* is a summary of a text of it; the other diagnostics carry nothing of a
\* statute.
SummaryIsFor(value, law_id) ==
    CASE value.kind = "fetch_error" -> value.error.law_id = law_id
      [] value.kind = "summary" -> value.of \in TextsOf(law_id)
      [] OTHER -> TRUE

\* C9: a held summary belongs to the current summary target, and while the
\* Q&A panel is active its context is a text of the current Q&A target.
C9_ResultsMatchTarget ==
    /\ current_summary # None =>
          summarize_law_id # NoLaw /\ SummaryIsFor(current_summary, summarize_law_id)
    /\ (qa_law_id # NoLaw /\ ~qa_loading) =>
          qa_law_context # NoText /\ qa_law_context \in TextsOf(qa_law_id)

\* C9 witness: a summary of one statute is held while the context fetched
\* for an earlier Q&A target, another statute, is still in the session.
C9_Witness ==
    /\ summarize_law_id # NoLaw /\ current_summary.kind = "summary"
    /\ qa_law_context # NoText /\ qa_law_context \notin TextsOf(summarize_law_id)

\* C10: a loading flag is set only with its target and a run pending; the run
\* that finds it set calls the extractor exactly once, for that target, and
\* clears the flag whatever the fetch returned; a run that finds no loading
\* flag set does not call the extractor.
C10_OneFetchPerSelection ==
    /\ [](/\ summary_loading => (rerun /\ summarize_law_id # NoLaw /\ ~qa_loading)
          /\ qa_loading => (rerun /\ qa_law_id # NoLaw /\ ~summary_loading))
    /\ [][/\ summary_loading =>
               /\ ~summary_loading' /\ ~qa_loading'
               /\ CallsTo(calls', "fetch_law_data_for_ai") = {1}
               /\ calls'[1].arg = summarize_law_id
          /\ qa_loading =>
               /\ ~qa_loading' /\ ~summary_loading'
               /\ CallsTo(calls', "fetch_law_data_for_ai") = {1}
               /\ calls'[1].arg = qa_law_id
          /\ (~summary_loading /\ ~qa_loading) =>
               CallsTo(calls', "fetch_law_data_for_ai") = {}]_vars

\* C10 witness: a run has fetched for the selected record, the fetch failed
\* and the loading flag is cleared.
C10_Witness ==
    /\ FetchedText /\ calls[1].ret.error # None
    /\ summarize_law_id = calls[1].arg /\ ~summary_loading /\ ~qa_loading

\* A chat history alternates user and assistant turns and ends with an
\* assistant turn.
Alternates(history) ==
    /\ Len(history) % 2 = 0
    /\ \A i \in 1..Len(history) : history[i].role = (IF i % 2 = 1 THEN "user" ELSE "assistant")

\* The diagnostic texts and answers get_gemini_chat_response returns.
ChatResults ==
    {"answer", "ai_disabled", "no_chat_context", "chat_exception", "blocked_safety",
     "blocked_recitation", "chat_failed"}

\* C11: a question submitted in the active Q&A panel appends a user turn
\* with the question and then an assistant turn with the chat result, leaves
\* the earlier turns as they were, calls the LLM once with the earlier turns
\* as history, and leaves the Q&A target, context and panel as they were;
\* the history always alternates user, assistant and has even length.
C11_QuestionAppendsTwoTurns ==
    /\ []Alternates(qa_chat_history)
    /\ [][chat_input =>
             LET n == Len(qa_chat_history)
             IN  /\ Len(qa_chat_history') = n + 2
                 /\ SubSeq(qa_chat_history', 1, n) = qa_chat_history
                 /\ qa_chat_history'[n + 1].role = "user"
                 /\ qa_chat_history'[n + 1].content.kind = "question"
                 /\ qa_chat_history'[n + 1].content.text \in Questions
                 /\ qa_chat_history'[n + 2].role = "assistant"
                 /\ qa_chat_history'[n + 2].content.kind \in ChatResults
                 /\ Len(calls') = 1
                 /\ calls'[1].fn = "generate_content"
                 /\ calls'[1].arg.history = qa_chat_history
                 /\ calls'[1].arg.context = qa_law_context
                 /\ calls'[1].arg.user_question = qa_chat_history'[n + 1].content.text
                 /\ qa_law_id' = qa_law_id /\ qa_law_id # NoLaw
                 /\ qa_law_context' = qa_law_context /\ qa_law_context # NoText
                 /\ ~qa_loading /\ ~qa_loading']_vars

\* C11 witness: a second question has been answered on top of an earlier
\* exchange.
C11_Witness ==
    /\ Len(qa_chat_history) = 4
    /\ Len(calls) = 1 /\ calls[1].fn = "generate_content"
    /\ Len(calls[1].arg.history) = 2

\* C12: the chat history is non-empty only while a Q&A target is set, and
\* every entry into the Q&A loading state, a re-ask of the same record
\* included, starts with an empty history and no context.
C12_HistoryWithinSession ==
    /\ [](/\ qa_chat_history # <<>> => qa_law_id # NoLaw
          /\ qa_loading => (qa_chat_history = <<>> /\ qa_law_context = NoText))
    /\ [][Ask => (qa_loading' /\ qa_chat_history' = <<>> /\ qa_law_context' = NoText)]_vars

\* C12 witness: the Q&A loading state has been entered, with an empty
\* history and no context, and no summary state beside it.
C12_Witness ==
    /\ qa_loading /\ qa_law_id # NoLaw
    /\ qa_chat_history = <<>> /\ qa_law_context = NoText
    /\ summarize_law_id = NoLaw /\ current_summary = None

\* The laws a search's listing calls returned, in call order.
Listed(cs) == Extend([i \in 1..Len(cs) |-> cs[i].ret])

\* C13: a search leaves no summary target, no summary, no Q&A target, no
\* context and an empty history, with neither loading flag set, whatever its
\* listings returned; the raw result set is None or what this run listed, and
\* the table is the filter applied to it.
C13_SearchResets ==
    [][CallsTo(calls', "_fetch_specific_type") # {} =>
          /\ summarize_law_id' = NoLaw /\ current_summary' = None
          /\ qa_law_id' = NoLaw /\ qa_law_context' = NoText /\ qa_chat_history' = <<>>
          /\ ~summary_loading' /\ ~qa_loading'
          /\ search_results_raw' \in {NoList, Listed(calls')}
          /\ filtered_results_df' =
                 filter_laws(search_results_raw', name_query, num_query, keyword_query,
                             date_from, date_to)]_vars

\* C13 witness: a search whose listings all failed has run while a Q&A
\* session had been opened before it (the name of its record is still kept).
C13_Witness ==
    /\ CallsTo(calls, "_fetch_specific_type") # {}
    /\ Listed(calls) = <<>>
    /\ qa_law_name # <<>> /\ qa_law_id = NoLaw

\* C17: a click on the active sort key flips the direction and keeps the
\* key; a click on another key makes it the active key, ascending, except
\* that the date key starts descending.
C17_SortClicks ==
    [][Sort =>
          \/ /\ sort_column' = sort_column
             /\ sort_ascending' = ~sort_ascending
          \/ /\ sort_column' # sort_column
             /\ sort_column' \in SORTABLE_COLUMNS
             /\ sort_ascending' = (sort_column' # COL_DATE)]_vars

\* C17 witness: the date key is active and ascending, which only a second
\* click on it gives.
C17_Witness == sort_column = COL_DATE /\ sort_ascending

\* C15: for the umbrella code fetch_law_list calls _fetch_specific_type once
\* for each of the codes 2, 3, 4, in that order, whatever the earlier calls
\* returned; it returns None exactly when all three listings are empty, and
\* otherwise their concatenation in that order, with the warning exactly
\* when one of the listings is empty.
C15_UmbrellaAggregation ==
    \A i \in CallsTo(calls, "fetch_law_list") :
        calls[i].arg.requested_law_type_code = LAW_TYPE_ALL =>
            /\ i = 4
            /\ \A k \in 1..3 : /\ calls[k].fn = "_fetch_specific_type"
                               /\ calls[k].arg = SPECIFIC_LAW_TYPE_CODES[k]
            /\ (calls[i].ret.laws = NoList) <=> (\A k \in 1..3 : calls[k].ret = <<>>)
            /\ calls[i].ret.laws # NoList =>
                  /\ calls[i].ret.laws = calls[1].ret \o calls[2].ret \o calls[3].ret
                  /\ calls[i].ret.warning <=> (\E k \in 1..3 : calls[k].ret = <<>>)

\* C15 witness: the listing for code 2 failed, those for 3 and 4 did not,
\* and the umbrella fetch returned their records with the warning.
C15_Witness ==
    /\ Len(calls) = 4 /\ calls[4].fn = "fetch_law_list"
    /\ calls[1].ret = <<>> /\ calls[2].ret # <<>> /\ calls[3].ret # <<>>
    /\ calls[4].ret.warning /\ Len(calls[4].ret.laws) = Len(calls[2].ret) + Len(calls[3].ret)

\* The calls of the decoder's two callers: what each made of the response.
PayloadOf(response) == parse_api_response(response.xml).app_data
Answered(response) == response.net = "ok" /\ response.status < 400

\* C19: parse_api_response returns a payload only for a parsable body with
\* result code "0" and ApplData present; a non-zero code gives no payload
\* with that code and message, code "0" without ApplData no payload with
\* code "0", an unparsable body no payload with code "-1"; and both callers
\* treat a missing payload as a failure, the code being "0" or not.
C19_DecoderContract ==
    /\ \A i \in CallsTo(calls, "parse_api_response") :
          LET xml == calls[i].arg.xml
              ret == calls[i].ret
              code == IF xml.code = "" THEN "-1" ELSE xml.code
          IN  /\ ret.app_data # None =>
                    (xml.wellformed /\ ret.result_code = "0" /\ xml.appdata # None
                     /\ ret.app_data = xml.appdata)
              /\ ~xml.wellformed => (ret.app_data = None /\ ret.result_code = "-1")
              /\ (xml.wellformed /\ code # "0") =>
                    (ret.app_data = None /\ ret.result_code = code /\ ret.message = xml.message)
              /\ (xml.wellformed /\ code = "0" /\ xml.appdata = None) =>
                    (ret.app_data = None /\ ret.result_code = "0")
              /\ (xml.wellformed /\ code = "0" /\ xml.appdata # None) => ret.app_data = xml.appdata
    /\ (Len(calls) = 1 /\ calls[1].fn = "_fetch_specific_type") =>
          ((Answered(calls[1].arg.response) /\ PayloadOf(calls[1].arg.response) = None) =>
              calls[1].ret = <<>>)
    /\ (Len(calls) = 1 /\ calls[1].fn = "fetch_law_data_for_ai") =>
          ((Answered(calls[1].arg.response) /\ PayloadOf(calls[1].arg.response) = None) =>
              (calls[1].ret.text = NoText /\ calls[1].ret.error # None))

\* C19 witness: a listing answered with code "0" and no ApplData, which the
\* list fetch took as a failure.
C19_Witness ==
    /\ Len(calls) = 1 /\ calls[1].fn = "_fetch_specific_type"
    /\ Answered(calls[1].arg.response)
    /\ calls[1].arg.response.xml.wellformed /\ calls[1].arg.response.xml.code = "0"
    /\ calls[1].arg.response.xml.appdata = None
    /\ calls[1].ret = <<>>

\* A date lies within the bounds that are set; no date lies within none.
InBounds(d, from, to) ==
    /\ from # NoDate => (d # NoDate /\ d >= from)
    /\ to # NoDate => (d # NoDate /\ d <= to)

RECURSIVE Within(_, _, _)
Within(laws, from, to) ==
    IF laws = <<>> THEN <<>>
    ELSE (IF InBounds(Head(laws).date, from, to) THEN <<Head(laws).LawId>> ELSE <<>>)
         \o Within(Tail(laws), from, to)

\* C18: every row filter_laws returns has a date within every bound that is
\* set, so a record without a date passes only when neither bound is set;
\* and with no text query the rows are exactly the records within the
\* bounds, in their order: the date filter drops no record inside them.
C18_DateBounds ==
    \A i \in CallsTo(calls, "filter_laws") :
        LET a == calls[i].arg
            rows == calls[i].ret
        IN  /\ \A k \in 1..Len(rows) : InBounds(rows[k].date, a.date_from, a.date_to)
            /\ \A k \in 1..Len(rows) :
                  rows[k].date = NoDate => (a.date_from = NoDate /\ a.date_to = NoDate)
            /\ a.name_query = <<>> =>
                  [k \in 1..Len(rows) |-> rows[k].LawId] = Within(a.laws, a.date_from, a.date_to)

\* C18 witness: of an undated record and a record dated on the lower bound,
\* handed to the filter with only that bound set, the second alone passed.
C18_Witness ==
    /\ Len(calls) = 1 /\ calls[1].fn = "filter_laws"
    /\ Len(calls[1].arg.laws) = 2
    /\ calls[1].arg.laws[1].date = NoDate
    /\ calls[1].arg.date_from # NoDate /\ calls[1].arg.date_to = NoDate
    /\ calls[1].arg.laws[2].date = calls[1].arg.date_from
    /\ Len(calls[1].ret) = 1 /\ calls[1].ret[1].date = calls[1].arg.date_from

\* The elements the allow-list walk collects a fragment from.
RECURSIVE Collected(_)
Collected(elements) ==
    IF elements = <<>> THEN <<>>
    ELSE (IF /\ Head(elements).tag \in RELEVANT_TAGS
             /\ Head(elements).text # NoText
             /\ Strip(Head(elements).text) # <<>>
          THEN <<Head(elements)>> ELSE <<>>) \o Collected(Tail(elements))

\* The exchange with the raw full text fields taken out of the body.
RECURSIVE DropRaw(_)
DropRaw(elements) ==
    IF elements = <<>> THEN <<>>
    ELSE (IF Head(elements).tag = "LawFullText" THEN <<>> ELSE <<Head(elements)>>)
         \o DropRaw(Tail(elements))
WithoutRaw(response) ==
    [response EXCEPT !.xml.appdata.elements = DropRaw(@)]

\* The first raw full text field's text is there and is not blank.
RawUsable(elements) ==
    \E k \in 1..Len(elements) :
        /\ elements[k].tag = "LawFullText"
        /\ \A j \in 1..(k - 1) : elements[j].tag # "LawFullText"
        /\ elements[k].text # NoText
        /\ Strip(elements[k].text) # <<>>

\* C20: exactly one of text and error is None in every result and a text is
\* never empty; when the walk collects a fragment the result is a text and
\* is the same with the raw field taken out of the body; when it collects
\* none and the raw field is there and not blank the result is that field's
\* text, whitespace-collapsed; when it collects none and the raw field is
\* missing or blank the result is the "no text" error.
C20_FallbackOnlyWhenWalkEmpty ==
    (Len(calls) = 1 /\ calls[1].fn = "fetch_law_data_for_ai") =>
        LET a == calls[1].arg
            ret == calls[1].ret
        IN  /\ (ret.text = NoText) <=> (ret.error # None)
            /\ ret.text # <<>>
            /\ (a.law_id # NoLaw /\ Answered(a.response) /\ PayloadOf(a.response) # None) =>
                  LET elements == PayloadOf(a.response).elements
                  IN  IF Collected(elements) # <<>>
                      THEN /\ ret.error = None
                           /\ ret = fetch_law_data_for_ai(a.law_id, WithoutRaw(a.response))
                      ELSE IF RawUsable(elements)
                      THEN /\ ret.error = None
                           /\ \E k \in 1..Len(elements) :
                                 /\ elements[k].tag = "LawFullText"
                                 /\ ret.text = Strip(CollapseWS(elements[k].text))
                      ELSE ret.text = NoText /\ ret.error.kind = "no_text"

\* C20 witness: a body of one blank allow-listed element and a raw field
\* with a text, for which the raw field's collapsed text was returned.
C20_Witness ==
    /\ Len(calls) = 1 /\ calls[1].fn = "fetch_law_data_for_ai"
    /\ calls[1].arg.law_id # NoLaw /\ Answered(calls[1].arg.response)
    /\ PayloadOf(calls[1].arg.response) # None
    /\ Len(PayloadOf(calls[1].arg.response).elements) = 2
    /\ PayloadOf(calls[1].arg.response).elements[1].tag = "ItemSentence"
    /\ RawUsable(PayloadOf(calls[1].arg.response).elements)
    /\ calls[1].ret.error = None
    /\ SLen(calls[1].ret.text) = 5

\* The run that produced the current state was an umbrella search with the
\* sidebar inputs as they are at the start of a session, and each category's
\* listing returned records.
UmbrellaSearchedNoFilters ==
    /\ Len(calls) = 3
    /\ \A k \in 1..3 : calls[k].fn = "_fetch_specific_type" /\ calls[k].ret # <<>>
    /\ name_query = <<>> /\ num_query = <<>> /\ keyword_query = <<>>
    /\ date_from = NoDate /\ date_to = MaxDate

\* C16: after such a search the sort state is (category rank, ascending),
\* and the table as displayed holds every record the three listings
\* returned, each with the law type of the code it was fetched under, the
\* records of code 2 before those of code 3 before those of code 4.
C16_UmbrellaShowsAll ==
    UmbrellaSearchedNoFilters =>
        /\ sort_column = TYPE_SORT_KEY /\ sort_ascending
        /\ \A shown \in sorted_df :
              /\ \A k \in 1..3 : \A n \in 1..Len(calls[k].ret) :
                    \E i \in 1..Len(shown) :
                        /\ shown[i].LawId = calls[k].ret[n].LawId
                        /\ shown[i].LawType = LAW_TYPES_REV(calls[k].arg)
                        /\ shown[i].sort_key = TYPE_SORT_ORDER(calls[k].arg)
              /\ Len(shown) = Len(Listed(calls))
              /\ \A i, j \in 1..Len(shown) : i < j => shown[i].sort_key <= shown[j].sort_key

\* C14: a call for a law id made less than TTL seconds after a call for the
\* same id that went to the registry makes no request and returns what that
\* call returned, a text or an error; a call with no such call before it
\* goes to the registry.
C14_OneRequestPerWindow ==
    \A j \in 1..Len(calls) :
        LET fresh == {i \in 1..(j - 1) : /\ calls[i].arg.law_id = calls[j].arg.law_id
                                          /\ calls[i].arg.request # None
                                          /\ calls[j].arg.at - calls[i].arg.at < TTL}
        IN  /\ \A i \in fresh : calls[j].arg.request = None /\ calls[j].ret = calls[i].ret
            /\ fresh = {} => calls[j].arg.request # None

\* C14 witness: a call that failed, a call for the same id one second less
\* than the TTL later that returned the same error without a request, and a
\* call one second after that one, which went to the registry again.
C14_Witness ==
    /\ Len(calls) = 3
    /\ calls[1].arg.law_id = calls[2].arg.law_id /\ calls[2].arg.law_id = calls[3].arg.law_id
    /\ calls[1].ret.error # None
    /\ calls[2].arg.at - calls[1].arg.at = TTL - 1
    /\ calls[2].arg.request = None /\ calls[2].ret = calls[1].ret
    /\ calls[3].arg.at - calls[1].arg.at = TTL
    /\ calls[3].arg.request # None

\* C21: get_gemini_summary and get_gemini_chat_response issue no request to
\* the LLM when the service is not configured or when the text, respectively
\* the context, is empty; they return the "AI disabled" message in the first
\* case, also when the text is empty as well, and the "no text" / "no
\* context" message in the second.
C21_GuardsBeforeLLM ==
    /\ (calls # <<>> /\ calls[1].fn = "get_gemini_summary") =>
        /\ ~GEMINI_ENABLED =>
               calls[1].ret = Message("ai_disabled") /\ Len(calls) = 1
        /\ (GEMINI_ENABLED /\ ~TextTruthy(calls[1].arg.text_content)) =>
               calls[1].ret = Message("no_text_to_summarize") /\ Len(calls) = 1
    /\ (calls # <<>> /\ calls[1].fn = "get_gemini_chat_response") =>
        /\ ~GEMINI_ENABLED =>
               calls[1].ret = Message("ai_disabled") /\ Len(calls) = 1
        /\ (GEMINI_ENABLED /\ ~TextTruthy(calls[1].arg.context)) =>
               calls[1].ret = Message("no_chat_context") /\ Len(calls) = 1

\* C21 witness: the chat function has been applied with the service
\* configured and an empty context, and made no request.
C21_Witness ==
    /\ calls # <<>> /\ calls[1].fn = "get_gemini_chat_response"
    /\ GEMINI_ENABLED /\ calls[1].arg.context = <<>>
    /\ calls[1].ret = Message("no_chat_context")

\* Both date inputs are set and From is after To.
FromAfterTo == date_from # NoDate /\ date_to # NoDate /\ date_from > date_to

\* C22: a run that starts with both dates set and From after To is not a
\* search: it makes no listing request and calls no filter, so the raw
\* result set and the table stay as they were.
C22_NoSearchWhenFromAfterTo ==
    [][FromAfterTo =>
          /\ ~Search
          /\ CallsTo(calls', "_fetch_specific_type") = {}
          /\ UNCHANGED results]_vars

\* C22 witness: the dates have been set to From after To on a page that
\* shows the table of an earlier search.
C22_Witness ==
    /\ FromAfterTo /\ ~rerun
    /\ search_results_raw # NoList /\ filtered_results_df # <<>>

\* Lines 276-277: the sort state a search executed with the code sets.
DefaultSort(code) ==
    IF code = LAW_TYPE_ALL
    THEN <<DEFAULT_ALL_TYPE_SORT_COLUMN, DEFAULT_ALL_TYPE_SORT_ASCENDING>>
    ELSE <<DEFAULT_SPECIFIC_TYPE_SORT_COLUMN, DEFAULT_SPECIFIC_TYPE_SORT_ASCENDING>>

\* C25: the default order button sets the sort state to the default of the
\* search that produced the table on display (category rank ascending after
\* an umbrella search, law number ascending after a single-category one),
\* whatever the law type selector shows by then.
C25_ResetRestoresSearchDefault ==
    [][reset_sort => <<sort_column', sort_ascending'>> = DefaultSort(searched_law_type_code)]_vars

\* An article-title-shaped token starts at q: the ordinal prefix and a
\* numeral.
TitleShapedAt(t, q) ==
    q + 1 <= Len(t) /\ t[q] = "dai" /\ t[q + 1] \in KANJI_NUMERALS \cup ARABIC_DIGITS

NumberEnd(t, p) ==
    IF p <= Len(t) /\ t[p] \in KANJI_NUMERALS THEN RunEnd(t, p, KANJI_NUMERALS)
    ELSE RunEnd(t, p, ARABIC_DIGITS)

\* The last position of the sub-article suffixes that start at p: the
\* particle and a number, repeated; p - 1 when none starts there.
RECURSIVE SuffixEnd(_, _)
SuffixEnd(t, p) ==
    IF p + 1 <= Len(t) /\ t[p] = "no" /\ t[p + 1] \in KANJI_NUMERALS \cup ARABIC_DIGITS
    THEN SuffixEnd(t, NumberEnd(t, p + 1) + 1)
    ELSE p - 1

\* The last position of the article reference that starts at p, its
\* sub-article suffix included; 0 when none starts there.
ReferenceEnd(t, p) ==
    IF ~TitleShapedAt(t, p) THEN 0
    ELSE IF NumberEnd(t, p + 1) + 1 <= Len(t) /\ t[NumberEnd(t, p + 1) + 1] = "jo"
         THEN SuffixEnd(t, NumberEnd(t, p + 1) + 2)
         ELSE NumberEnd(t, p + 1)

\* The article references of a text from p on, in order of appearance.
RECURSIVE References(_, _)
References(t, p) ==
    IF p > Len(t) THEN <<>>
    ELSE IF ReferenceEnd(t, p) = 0 THEN References(t, p + 1)
    ELSE <<SubSeq(t, p, ReferenceEnd(t, p))>> \o References(t, ReferenceEnd(t, p) + 1)

\* The content of the citation marker of an answer, stripped: what stands
\* between the first opening of a marker and the closing character that
\* follows it.  NoSpan when the answer has no marker.
MarkerRegion(t) ==
    LET opens == {i \in 1..Len(t) : t[i] = MARKER_OPEN /\ \E c \in (i + 1)..Len(t) : t[c] = MARKER_CLOSE}
    IN  IF opens = {} THEN NoSpan
        ELSE LET i == CHOOSE i \in opens : \A j \in opens : i <= j
                 c == CHOOSE c \in (i + 1)..Len(t) :
                          t[c] = MARKER_CLOSE /\ \A k \in (i + 1)..(c - 1) : t[k] # MARKER_CLOSE
             IN  StripText(SubSeq(t, i + 1, c - 1))

\* C24: extract_citations returns the empty list when the answer has no
\* citation marker or the marker holds the sentinel; otherwise it returns
\* the article references that stand inside the marker, each with its
\* sub-article suffix, in order of appearance, duplicates kept, and nothing
\* from outside the marker.
C24_CitationsOfMarker ==
    (Len(calls) = 1 /\ calls[1].fn = "extract_citations") =>
        LET region == MarkerRegion(calls[1].arg.ai_response_text)
        IN  calls[1].ret = IF region = NoSpan \/ region = SENTINEL_NONE
                           THEN <<>> ELSE References(region, 1)
====
